---- MODULE Spec2Model ----
(***************************************************************************)
(* Model of cli/ops/fetch.rs: the two ops op_fetch and                     *)
(* op_create_http_client, the async fetch future that op_fetch returns,    *)
(* and the resource table they share.                                      *)
(*                                                                         *)
(* Strings that the code parses (method, header names and values) are      *)
(* sequences of byte values; a URL string is the sequence of its parts.    *)
(* Option<T> is a sequence of length 0 (None) or 1 (Some).                 *)
(***************************************************************************)
EXTENDS Integers, Sequences, FiniteSets, TLC

VARIABLES resource_table, tasks, ncalls, last, net_sends,
          handles, aborted, borrows

vars == <<resource_table, tasks, ncalls, last, net_sends,
          handles, aborted, borrows>>

-----------------------------------------------------------------------------
(* Bounds *)

\* calls of the two ops in one run
MaxCalls == 3

-----------------------------------------------------------------------------
(* Option and Result values *)

None == <<>>

Some(x) == <<x>>

IsSome(o) == Len(o) = 1

Unwrap(o) == o[1]

-----------------------------------------------------------------------------
(* Error classes of the ops, by the constructor the code uses *)

BadResource == "BadResource"

InvalidMethod == "InvalidMethod"

UrlParseError == "UrlParseError"

SchemeNotSupported == "TypeError: scheme not supported"

PermissionDenied == "PermissionDenied"

NetworkError == "reqwest::Error"

\* the two panics of the synchronous part and the one of the future
PanicArgs == "panic: Invalid number of arguments"

PanicHeader == "panic: unwrap on invalid request header"

PanicClient == "panic: unwrap on create_http_client"

PanicToStr == "panic: unwrap on HeaderValue::to_str"

\* RefCell::borrow / borrow_mut on a table whose borrow flag forbids it
PanicBorrow == "panic: already borrowed"

Panics == {PanicArgs, PanicHeader, PanicClient, PanicToStr, PanicBorrow}

\* what a caller can receive as an error value
ErrorValues ==
  {BadResource, InvalidMethod, UrlParseError, SchemeNotSupported,
   PermissionDenied, NetworkError}

-----------------------------------------------------------------------------
(* Byte classes of the http crate's parsers *)

\* token characters: what a method and a header name may consist of
\* (a reduced table: letters, digits and '-')
IsTokenByte(b) ==
  \/ b \in 48..57
  \/ b \in 65..90
  \/ b \in 97..122
  \/ b = 45

\* HeaderValue::from_str: visible ASCII (32..126) or tab
IsValueStrByte(b) == (b \in 32..126) \/ b = 9

\* HeaderValue::to_str: the same class; bytes 128..255 are legal inside a
\* HeaderValue received from the wire but are not convertible
IsVisibleAscii(b) == (b \in 32..126) \/ b = 9

MethodFromBytes(s) == Len(s) > 0 /\ \A i \in 1..Len(s) : IsTokenByte(s[i])

HeaderNameFromBytes(s) ==
  Len(s) > 0 /\ \A i \in 1..Len(s) : IsTokenByte(s[i])

HeaderValueFromStr(s) == \A i \in 1..Len(s) : IsValueStrByte(s[i])

HeaderValueToStr(s) == \A i \in 1..Len(s) : IsVisibleAscii(s[i])

-----------------------------------------------------------------------------
(* Input alphabets *)

GET == <<71, 69, 84>>

BadMethodStr == <<71, 32, 84>>

Methods == {None, Some(GET), Some(BadMethodStr)}

\* a URL string: <<scheme, host>>; a string with no scheme is relative
UrlHttpA == <<"http", "a.test">>

UrlHttpsB == <<"https", "b.test">>

UrlFtpA == <<"ftp", "a.test">>

UrlRelative == <<"", "a.test">>

Urls == {UrlHttpA, UrlHttpsB, UrlFtpA, UrlRelative}

HdrName == <<120, 45, 97>>

HdrNameBad == <<120, 32, 97>>

HdrVal == <<49>>

HdrValBad == <<49, 10>>

HdrValOpaque == <<49, 233>>

HeaderLists ==
  { << <<HdrName, HdrVal>> >>,
    << <<HdrNameBad, HdrVal>> >>,
    << <<HdrName, HdrVal>>, <<HdrName, HdrValBad>> >> }

Chunk1 == <<1>>

Chunk2 == <<2>>

DataBufs == { <<>>, <<Chunk1>>, <<Chunk1, Chunk2>> }

ClientRids == {None} \cup { Some(r) : r \in 0..1 }

FetchArgs ==
  [method : Methods, url : Urls, headers : HeaderLists,
   client_rid : ClientRids]

CaFiles == {None, Some("ca.pem"), Some("bad.pem"), Some("secret.pem")}

Statuses == {200, 404}

ResponseHeaderLists ==
  { << <<HdrName, HdrVal>> >>, << <<HdrName, HdrValOpaque>> >> }

\* what the network answers to one send
Responses ==
  [transport_ok : {TRUE}, status : Statuses, headers : ResponseHeaderLists]
  \cup [transport_ok : {FALSE}, status : {0}, headers : {<<>>}]

-----------------------------------------------------------------------------
(* Collaborators outside this file *)

NetAllow == {"a.test"}

ReadAllow == {"ca.pem", "bad.pem"}

InvalidCaMaterial == {"bad.pem"}

\* State::check_net_url
check_net_url(url) == url.host \in NetAllow

\* State::check_read
check_read(path) == path \in ReadAllow

\* http_util::create_http_client: Err on unusable trust-anchor material
create_http_client(ca_file) ==
  IF IsSome(ca_file) /\ Unwrap(ca_file) \in InvalidCaMaterial
  THEN [ok |-> FALSE, client |-> [ca |-> None]]
  ELSE [ok |-> TRUE, client |-> [ca |-> ca_file]]

\* the process-wide client State::http_client
DefaultClient == [ca |-> None]

\* url::Url::parse: an absolute URL has a scheme
UrlParse(s) ==
  IF s[1] = ""
  THEN [ok |-> FALSE, scheme |-> "", host |-> ""]
  ELSE [ok |-> TRUE, scheme |-> s[1], host |-> s[2]]

\* StatusCode::canonical_reason().unwrap_or("")
CanonicalReason(status) ==
  CASE status = 200 -> "OK"
    [] status = 404 -> "Not Found"
    [] status = 500 -> "Internal Server Error"
    [] OTHER -> ""

\* ResourceTable::add: the entry goes under the counter's value
TableAdd(rt, name, res) ==
  [map |-> [r \in DOMAIN rt.map \cup {rt.next_id} |->
              IF r = rt.next_id THEN [name |-> name, res |-> res]
              ELSE rt.map[r]],
   next_id |-> rt.next_id + 1]

\* ResourceTable::get::<T>: None when absent or of another type
TableGet(rt, rid, type) ==
  IF rid \in DOMAIN rt.map /\ rt.map[rid].res.type = type
  THEN Some(rt.map[rid].res)
  ELSE None

-----------------------------------------------------------------------------
(* The RefCell around the resource table: the borrows that outlive a step *)

Free == [shared |-> 0, excl |-> 0]

\* resource_table.borrow() succeeds
CanBorrow(b) == b.excl = 0

\* resource_table.borrow_mut() succeeds
CanBorrowMut(b) == b.excl = 0 /\ b.shared = 0

Hold(b, h) == [shared |-> b.shared + h.shared, excl |-> b.excl + h.excl]

Release(b, h) == [shared |-> b.shared - h.shared, excl |-> b.excl - h.excl]

\* the Ref taken at the top of op_fetch is dropped when the call returns:
\* the future gets a clone of the Rc, not the Ref
FetchReturnHeld == Free

\* the RefMut of op_create_http_client is dropped when the call returns
CreateReturnHeld == Free

\* the future takes borrow_mut() before the await and keeps it while suspended
AwaitHeld_BorrowFirst == [shared |-> 0, excl |-> 1]

\* the future takes borrow_mut() only after send() has answered, so it holds
\* nothing while it is suspended
AwaitHeld == Free

-----------------------------------------------------------------------------
(* Resources kept in the table *)

HttpClientResource(client) ==
  [type |-> "HttpClientResource", client |-> client, body |-> 0]

\* the body registered under the client's resource type
HttpBodyResource_AsClient(id) ==
  [type |-> "HttpClientResource", client |-> DefaultClient, body |-> id]

\* StreamResourceHolder::new(StreamResource::HttpBody(body)); body names the
\* fetch whose response it wraps
HttpBodyResource(id) ==
  [type |-> "StreamResourceHolder", client |-> DefaultClient, body |-> id]

-----------------------------------------------------------------------------
(* op_fetch, synchronous part *)

\* a failed lookup answered with the default client
LookupClient_Fallback(rt, client_rid) ==
  IF IsSome(client_rid)
  THEN LET r == TableGet(rt, Unwrap(client_rid), "HttpClientResource") IN
       IF IsSome(r)
       THEN [ok |-> TRUE, client |-> Unwrap(r).client]
       ELSE [ok |-> TRUE, client |-> DefaultClient]
  ELSE [ok |-> TRUE, client |-> DefaultClient]

\* the client a fetch is bound to: the registered one or the default
LookupClient(rt, client_rid) ==
  IF IsSome(client_rid)
  THEN LET r == TableGet(rt, Unwrap(client_rid), "HttpClientResource") IN
       IF IsSome(r)
       THEN [ok |-> TRUE, client |-> Unwrap(r).client]
       ELSE [ok |-> FALSE, client |-> DefaultClient]
  ELSE [ok |-> TRUE, client |-> DefaultClient]

\* Some(method_str) => Method::from_bytes(..)?, None => Method::GET
ParseMethod(method) ==
  IF IsSome(method)
  THEN [ok |-> MethodFromBytes(Unwrap(method)), method |-> Unwrap(method)]
  ELSE [ok |-> TRUE, method |-> GET]

\* the scheme test left out
SchemeSupported_Off(scheme) == TRUE


SchemeSupported(scheme) == ~(scheme # "http" /\ scheme # "https")

\* the gate's answer dropped: the ? after check_net_url left out
NetGate_Ignored(url) == TRUE

\* state.check_net_url(&url_)?
NetGate(url) == check_net_url(url)

\* match data.len(): 0 => no body, 1 => data[0], _ => panic
RequestBody(data) ==
  CASE Len(data) = 0 -> [panic |-> FALSE, body |-> None]
    [] Len(data) = 1 -> [panic |-> FALSE, body |-> Some(data[1])]
    [] OTHER -> [panic |-> TRUE, body |-> None]

\* the header loop: each name and value is parsed and unwrapped
RequestHeaders(headers) ==
  [panic |-> \E i \in 1..Len(headers) :
               \/ ~HeaderNameFromBytes(headers[i][1])
               \/ ~HeaderValueFromStr(headers[i][2]),
   headers |-> headers]

NoRequest ==
  [client |-> DefaultClient, method |-> <<>>, url |-> <<>>, body |-> None,
   headers |-> <<>>]

\* a call that ends before the future is built: an Err or a panic
SyncErr(err, gate) ==
  [result |-> err, gate |-> gate, spawn |-> FALSE, request |-> NoRequest]

\* the request built (body and headers) before the permission check
op_fetch_BuildFirst(rt, args, data) ==
  LET c == LookupClient(rt, args.client_rid) IN
  IF ~c.ok THEN SyncErr(BadResource, 0) ELSE
  LET m == ParseMethod(args.method) IN
  IF ~m.ok THEN SyncErr(InvalidMethod, 0) ELSE
  LET u == UrlParse(args.url) IN
  IF ~u.ok THEN SyncErr(UrlParseError, 0) ELSE
  IF ~SchemeSupported(u.scheme) THEN SyncErr(SchemeNotSupported, 0) ELSE
  LET b == RequestBody(data) IN
  IF b.panic THEN SyncErr(PanicArgs, 0) ELSE
  LET h == RequestHeaders(args.headers) IN
  IF h.panic THEN SyncErr(PanicHeader, 0) ELSE
  IF ~NetGate(u) THEN SyncErr(PermissionDenied, 1) ELSE
  [result |-> "Async", gate |-> 1, spawn |-> TRUE,
   request |-> [client |-> c.client, method |-> m.method, url |-> args.url,
                body |-> b.body, headers |-> h.headers]]

\* the permission check moved to the top, right after the url is parsed
op_fetch_GateFirst(rt, args, data) ==
  LET u == UrlParse(args.url) IN
  IF ~u.ok THEN SyncErr(UrlParseError, 0) ELSE
  IF ~NetGate(u) THEN SyncErr(PermissionDenied, 1) ELSE
  LET c == LookupClient(rt, args.client_rid) IN
  IF ~c.ok THEN SyncErr(BadResource, 1) ELSE
  LET m == ParseMethod(args.method) IN
  IF ~m.ok THEN SyncErr(InvalidMethod, 1) ELSE
  IF ~SchemeSupported(u.scheme) THEN SyncErr(SchemeNotSupported, 1) ELSE
  LET b == RequestBody(data) IN
  IF b.panic THEN SyncErr(PanicArgs, 1) ELSE
  LET h == RequestHeaders(args.headers) IN
  IF h.panic THEN SyncErr(PanicHeader, 1) ELSE
  [result |-> "Async", gate |-> 1, spawn |-> TRUE,
   request |-> [client |-> c.client, method |-> m.method, url |-> args.url,
                body |-> b.body, headers |-> h.headers]]

op_fetch(rt, args, data) ==
  LET c == LookupClient(rt, args.client_rid) IN
  IF ~c.ok THEN SyncErr(BadResource, 0) ELSE
  LET m == ParseMethod(args.method) IN
  IF ~m.ok THEN SyncErr(InvalidMethod, 0) ELSE
  LET u == UrlParse(args.url) IN
  IF ~u.ok THEN SyncErr(UrlParseError, 0) ELSE
  IF ~SchemeSupported(u.scheme) THEN SyncErr(SchemeNotSupported, 0) ELSE
  IF ~NetGate(u) THEN SyncErr(PermissionDenied, 1) ELSE
  LET b == RequestBody(data) IN
  IF b.panic THEN SyncErr(PanicArgs, 1) ELSE
  LET h == RequestHeaders(args.headers) IN
  IF h.panic THEN SyncErr(PanicHeader, 1) ELSE
  [result |-> "Async", gate |-> 1, spawn |-> TRUE,
   request |-> [client |-> c.client, method |-> m.method, url |-> args.url,
                body |-> b.body, headers |-> h.headers]]

-----------------------------------------------------------------------------
(* op_fetch, the future *)

NoJson == [bodyRid |-> -1, status |-> 0, statusText |-> "", headers |-> <<>>]

\* the body resource added twice
FetchFuture_AddTwice(rt, id, res) ==
  IF ~res.transport_ok
  THEN [rt |-> rt, kind |-> "err", err |-> NetworkError, json |-> NoJson]
  ELSE IF \E i \in 1..Len(res.headers) : ~HeaderValueToStr(res.headers[i][2])
  THEN [rt |-> rt, kind |-> "panic", err |-> PanicToStr, json |-> NoJson]
  ELSE [rt |-> TableAdd(TableAdd(rt, "httpBody", HttpBodyResource(id)),
                        "httpBody", HttpBodyResource(id)),
        kind |-> "ok", err |-> "",
        json |-> [bodyRid |-> rt.next_id + 1, status |-> res.status,
                  statusText |-> CanonicalReason(res.status),
                  headers |-> res.headers]]

\* the counter read after the insertion instead of add's return value
FetchFuture_NextId(rt, id, res) ==
  IF ~res.transport_ok
  THEN [rt |-> rt, kind |-> "err", err |-> NetworkError, json |-> NoJson]
  ELSE IF \E i \in 1..Len(res.headers) : ~HeaderValueToStr(res.headers[i][2])
  THEN [rt |-> rt, kind |-> "panic", err |-> PanicToStr, json |-> NoJson]
  ELSE [rt |-> TableAdd(rt, "httpBody", HttpBodyResource(id)),
        kind |-> "ok", err |-> "",
        json |-> [bodyRid |-> rt.next_id + 1, status |-> res.status,
                  statusText |-> CanonicalReason(res.status),
                  headers |-> res.headers]]

\* a body resource registered before the send error is propagated
FetchFuture_AddOnErr(rt, id, res) ==
  IF ~res.transport_ok
  THEN [rt |-> TableAdd(rt, "httpBody", HttpBodyResource(id)),
        kind |-> "err", err |-> NetworkError, json |-> NoJson]
  ELSE IF \E i \in 1..Len(res.headers) : ~HeaderValueToStr(res.headers[i][2])
  THEN [rt |-> rt, kind |-> "panic", err |-> PanicToStr, json |-> NoJson]
  ELSE [rt |-> TableAdd(rt, "httpBody", HttpBodyResource(id)),
        kind |-> "ok", err |-> "",
        json |-> [bodyRid |-> rt.next_id, status |-> res.status,
                  statusText |-> CanonicalReason(res.status),
                  headers |-> res.headers]]

\* the body stored under the newest existing handle instead of a fresh one
FetchFuture_Overwrite(rt, id, res) ==
  IF ~res.transport_ok
  THEN [rt |-> rt, kind |-> "err", err |-> NetworkError, json |-> NoJson]
  ELSE IF \E i \in 1..Len(res.headers) : ~HeaderValueToStr(res.headers[i][2])
  THEN [rt |-> rt, kind |-> "panic", err |-> PanicToStr, json |-> NoJson]
  ELSE LET at == IF rt.next_id > 0 THEN rt.next_id - 1 ELSE 0 IN
       [rt |-> [map |-> [r \in DOMAIN rt.map \cup {at} |->
                           IF r = at
                           THEN [name |-> "httpBody",
                                 res |-> HttpBodyResource(id)]
                           ELSE rt.map[r]],
                next_id |-> at + 1],
        kind |-> "ok", err |-> "",
        json |-> [bodyRid |-> at, status |-> res.status,
                  statusText |-> CanonicalReason(res.status),
                  headers |-> res.headers]]

\* the handle derived from the call's number, as if reserved at issue
FetchFuture_RidByCall(rt, id, res) ==
  IF ~res.transport_ok
  THEN [rt |-> rt, kind |-> "err", err |-> NetworkError, json |-> NoJson]
  ELSE IF \E i \in 1..Len(res.headers) : ~HeaderValueToStr(res.headers[i][2])
  THEN [rt |-> rt, kind |-> "panic", err |-> PanicToStr, json |-> NoJson]
  ELSE [rt |-> TableAdd(rt, "httpBody", HttpBodyResource(id)),
        kind |-> "ok", err |-> "",
        json |-> [bodyRid |-> id - 1, status |-> res.status,
                  statusText |-> CanonicalReason(res.status),
                  headers |-> res.headers]]

\* the body of the async block once send() has answered: the new table and
\* what the future resolves to
FetchFuture(rt, id, res) ==
  IF ~res.transport_ok
  THEN [rt |-> rt, kind |-> "err", err |-> NetworkError, json |-> NoJson]
  ELSE IF \E i \in 1..Len(res.headers) : ~HeaderValueToStr(res.headers[i][2])
  THEN [rt |-> rt, kind |-> "panic", err |-> PanicToStr, json |-> NoJson]
  ELSE [rt |-> TableAdd(rt, "httpBody", HttpBodyResource(id)),
        kind |-> "ok", err |-> "",
        json |-> [bodyRid |-> rt.next_id, status |-> res.status,
                  statusText |-> CanonicalReason(res.status),
                  headers |-> res.headers]]

-----------------------------------------------------------------------------
(* op_create_http_client *)

\* the read check left out
ReadGate_Off(ca_file) == TRUE

\* if let Some(ca_file) = .. { state.check_read(..)? }
ReadGate(ca_file) == IsSome(ca_file) => check_read(Unwrap(ca_file))

\* the client built and registered before the read permission is checked
op_create_http_client_AddFirst(rt, ca_file) ==
  LET c == create_http_client(ca_file) IN
  IF ~c.ok
  THEN [rt |-> rt, result |-> PanicClient, rid |-> -1]
  ELSE IF ~ReadGate(ca_file)
  THEN [rt |-> TableAdd(rt, "httpClient", HttpClientResource(c.client)),
        result |-> PermissionDenied, rid |-> -1]
  ELSE [rt |-> TableAdd(rt, "httpClient", HttpClientResource(c.client)),
        result |-> "Sync", rid |-> rt.next_id]

op_create_http_client(rt, ca_file) ==
  IF ~ReadGate(ca_file)
  THEN [rt |-> rt, result |-> PermissionDenied, rid |-> -1]
  ELSE LET c == create_http_client(ca_file) IN
       IF ~c.ok
       THEN [rt |-> rt, result |-> PanicClient, rid |-> -1]
       ELSE [rt |-> TableAdd(rt, "httpClient", HttpClientResource(c.client)),
             result |-> "Sync", rid |-> rt.next_id]

-----------------------------------------------------------------------------
(* State machine *)

Init ==
  /\ resource_table = [map |-> <<>>, next_id |-> 0]
  /\ tasks = <<>>
  /\ ncalls = 0
  /\ last = [op |-> "none", result |-> "", rid |-> -1, gate |-> 0]
  /\ net_sends = 0
  /\ handles = <<>>
  /\ aborted = FALSE
  /\ borrows = Free

\* a call of op_fetch; a spawned future is kept under the call's number, with
\* the request it owns and the url string it keeps for its log line
Fetch(args, data) ==
  /\ ~aborted
  /\ ncalls < MaxCalls
  /\ LET o == IF CanBorrow(borrows)
              THEN op_fetch(resource_table, args, data)
              ELSE SyncErr(PanicBorrow, 0)
     IN
     /\ ncalls' = ncalls + 1
     /\ last' = [op |-> "fetch", result |-> o.result, rid |-> -1,
                 gate |-> o.gate]
     /\ aborted' = (o.result \in Panics)
     /\ tasks' = IF o.spawn
                 THEN [i \in DOMAIN tasks \cup {ncalls + 1} |->
                         IF i = ncalls + 1
                         THEN [pc |-> "spawned", request |-> o.request,
                               client_rid |-> args.client_rid,
                               url |-> args.url,
                               kind |-> "none", err |-> "", json |-> NoJson]
                         ELSE tasks[i]]
                 ELSE tasks
     /\ borrows' = Hold(borrows, FetchReturnHeld)
  /\ UNCHANGED <<resource_table, net_sends, handles>>

\* first poll of a future: request.send() consumes the request and the
\* future suspends
TaskSend(id) ==
  /\ ~aborted
  /\ id \in DOMAIN tasks
  /\ tasks[id].pc = "spawned"
  /\ tasks' = [tasks EXCEPT ![id].pc = "sending", ![id].request = NoRequest]
  /\ net_sends' = net_sends + 1
  /\ borrows' = Hold(borrows, AwaitHeld)
  /\ UNCHANGED <<resource_table, ncalls, last, handles, aborted>>

\* completions served in issue order: a future resumes only when every
\* future spawned before it has finished
TaskComplete_InOrder(id, res) ==
  /\ ~aborted
  /\ id \in DOMAIN tasks
  /\ tasks[id].pc = "sending"
  /\ \A j \in DOMAIN tasks : j < id => tasks[j].pc = "done"
  /\ LET b == Release(borrows, AwaitHeld)
         f == IF res.transport_ok /\ ~CanBorrowMut(b)
              THEN [rt |-> resource_table, kind |-> "panic",
                    err |-> PanicBorrow, json |-> NoJson]
              ELSE FetchFuture(resource_table, id, res)
     IN
     /\ borrows' = b
     /\ resource_table' = f.rt
     /\ tasks' = [tasks EXCEPT ![id].pc = IF f.kind = "panic" THEN "panicked"
                                         ELSE "done",
                               ![id].kind = f.kind,
                               ![id].err = f.err, ![id].json = f.json]
     /\ handles' = IF f.kind = "ok"
                   THEN Append(handles, [rid |-> f.json.bodyRid,
                                         for |-> "body", call |-> id])
                   ELSE handles
     /\ aborted' = (f.kind = "panic")
  /\ UNCHANGED <<ncalls, last, net_sends>>

\* the poll after send() has answered with res: the rest of the async block
TaskComplete(id, res) ==
  /\ ~aborted
  /\ id \in DOMAIN tasks
  /\ tasks[id].pc = "sending"
  /\ LET b == Release(borrows, AwaitHeld)
         f == IF res.transport_ok /\ ~CanBorrowMut(b)
              THEN [rt |-> resource_table, kind |-> "panic",
                    err |-> PanicBorrow, json |-> NoJson]
              ELSE FetchFuture(resource_table, id, res)
     IN
     /\ borrows' = b
     /\ resource_table' = f.rt
     /\ tasks' = [tasks EXCEPT ![id].pc = IF f.kind = "panic" THEN "panicked"
                                         ELSE "done",
                               ![id].kind = f.kind,
                               ![id].err = f.err, ![id].json = f.json]
     /\ handles' = IF f.kind = "ok"
                   THEN Append(handles, [rid |-> f.json.bodyRid,
                                         for |-> "body", call |-> id])
                   ELSE handles
     /\ aborted' = (f.kind = "panic")
  /\ UNCHANGED <<ncalls, last, net_sends>>

CreateHttpClient(ca_file) ==
  /\ ~aborted
  /\ ncalls < MaxCalls
  /\ LET o == IF CanBorrowMut(borrows)
              THEN op_create_http_client(resource_table, ca_file)
              ELSE [rt |-> resource_table, result |-> PanicBorrow, rid |-> -1]
     IN
     /\ borrows' = Hold(borrows, CreateReturnHeld)
     /\ resource_table' = o.rt
     /\ ncalls' = ncalls + 1
     /\ last' = [op |-> "create", result |-> o.result, rid |-> o.rid,
                 gate |-> 0]
     /\ handles' = IF o.result = "Sync"
                   THEN Append(handles, [rid |-> o.rid, for |-> "client",
                                         call |-> ncalls + 1])
                   ELSE handles
     /\ aborted' = (o.result \in Panics)
  /\ UNCHANGED <<tasks, net_sends>>

Next ==
  \/ \E args \in FetchArgs, data \in DataBufs : Fetch(args, data)
  \/ \E id \in 1..MaxCalls : TaskSend(id)
  \/ \E id \in 1..MaxCalls, res \in Responses : TaskComplete(id, res)
  \/ \E ca_file \in CaFiles : CreateHttpClient(ca_file)

Spec == Init /\ [][Next]_vars

-----------------------------------------------------------------------------
(* Steps as seen between two states *)

\* the step is a call of op_fetch
IsFetchCall == ncalls' = ncalls + 1 /\ last'.op = "fetch"

\* the step is a call of op_create_http_client
IsCreateCall == ncalls' = ncalls + 1 /\ last'.op = "create"

\* the futures whose send() has been started
Sent == { i \in DOMAIN tasks : tasks[i].pc # "spawned" }

HasUnsupportedScheme(args) ==
  LET u == UrlParse(args.url) IN u.ok /\ u.scheme \notin {"http", "https"}

\* the calls whose url is one of urls
FetchArgsOf(urls) ==
  [method : Methods, url : urls, headers : HeaderLists,
   client_rid : ClientRids]

UnsupportedUrls ==
  { s \in Urls : UrlParse(s).ok /\ UrlParse(s).scheme \notin {"http", "https"} }

DeniedUrls == { s \in Urls : UrlParse(s).ok /\ ~check_net_url(UrlParse(s)) }

-----------------------------------------------------------------------------
(* C1 *)

\* C1 as stated: a fetch call whose URL has a scheme other than http or
\* https fails with the unsupported-scheme error and leaves the permission
\* gate uncalled, whatever its other arguments are.
C1_AnyArgsUnsupportedScheme ==
  [][\A args \in FetchArgs, data \in DataBufs :
       (Fetch(args, data) /\ HasUnsupportedScheme(args))
         => (last'.result = SchemeNotSupported /\ last'.gate = 0)
    ]_vars

C1_SchemeRule ==
  \A args \in FetchArgsOf(UnsupportedUrls), data \in DataBufs :
    LET o == op_fetch(resource_table, args, data) IN
      /\ o.gate = 0
      /\ ~o.spawn
      /\ o.result \in {BadResource, InvalidMethod, SchemeNotSupported}
      /\ o.result = BadResource
           <=> ~LookupClient(resource_table, args.client_rid).ok
      /\ o.result = SchemeNotSupported
           <=> /\ LookupClient(resource_table, args.client_rid).ok
               /\ ParseMethod(args.method).ok

C1_SchemeStep ==
  (IsFetchCall /\ last'.result = SchemeNotSupported)
    => /\ last'.gate = 0
       /\ tasks' = tasks
       /\ resource_table' = resource_table
       /\ ~aborted'

\* C1 (amended): a fetch call whose URL has a scheme other than http or
\* https fails synchronously without calling the permission gate and without
\* spawning a future; the error is unsupported-scheme exactly when the client
\* lookup and the method token are valid, else the error of that earlier step.
C1_UnsupportedSchemeBeforeGate ==
  []C1_SchemeRule /\ [][C1_SchemeStep]_vars

C1_Witness ==
  /\ last.op = "fetch"
  /\ last.result = SchemeNotSupported
  /\ last.gate = 0
  /\ resource_table.next_id > 0

-----------------------------------------------------------------------------
(* C2 *)

C2_DenyRule ==
  /\ \A args \in FetchArgsOf(DeniedUrls), data \in DataBufs :
       LET o == op_fetch(resource_table, args, data) IN
       o.gate = 1 => (o.result = PermissionDenied /\ ~o.spawn)
  /\ net_sends = Cardinality(Sent)

C2_DenyStep ==
  (IsFetchCall /\ last'.result = PermissionDenied)
    => /\ last'.gate = 1
       /\ tasks' = tasks
       /\ net_sends' = net_sends
       /\ resource_table' = resource_table
       /\ ~aborted'

\* C2: when the permission gate denies the target URL of a fetch, the call
\* returns permission-denied, no future is spawned for it, no send is
\* started and the resource table is left as it was.
C2_DeniedFetchHasNoEffect ==
  []C2_DenyRule /\ [][C2_DenyStep]_vars

C2_Witness ==
  /\ last.op = "fetch"
  /\ last.result = PermissionDenied
  /\ last.gate = 1
  /\ net_sends > 0
  /\ resource_table.next_id > 0

-----------------------------------------------------------------------------
(* C3 *)

\* the handles under which the table holds a response body
Bodies ==
  { r \in DOMAIN resource_table.map :
      resource_table.map[r].res.type = "StreamResourceHolder" }

\* the bodies that wrap the response of call id
BodiesOf(id) == { r \in Bodies : resource_table.map[r].res.body = id }

Succeeded == { i \in DOMAIN tasks : tasks[i].kind = "ok" }

C3_Count ==
  /\ Cardinality(Bodies) = Cardinality(Succeeded)
  /\ \A id \in 1..ncalls :
       Cardinality(BodiesOf(id)) = IF id \in Succeeded THEN 1 ELSE 0

C3_Step == (IsFetchCall \/ IsCreateCall) => Bodies' = Bodies

\* C3: the table holds exactly one body resource for each fetch whose future
\* completed successfully and none for any other call; the synchronous
\* calls add no body resource.
C3_OneBodyPerSuccessfulFetch ==
  []C3_Count /\ [][C3_Step]_vars

C3_Witness ==
  /\ \E i \in DOMAIN tasks : tasks[i].pc = "done" /\ tasks[i].kind = "ok"
  /\ \E j \in DOMAIN tasks : tasks[j].pc = "done" /\ tasks[j].kind = "err"
  /\ ncalls > Cardinality(DOMAIN tasks)
  /\ Cardinality(DOMAIN resource_table.map) = 1

-----------------------------------------------------------------------------
(* C4 *)

\* C4: no handle value is handed out twice: the handles delivered by
\* completed fetches and returned by op_create_http_client are pairwise
\* distinct, whatever the order of completion.
C4_HandlesDistinct ==
  \A i, j \in DOMAIN handles :
    i # j => handles[i].rid # handles[j].rid

C4_Witness ==
  /\ Len(handles) = 3
  /\ \E i, j \in DOMAIN handles :
       /\ i < j
       /\ handles[i].for = "body"
       /\ handles[j].for = "body"
       /\ handles[i].call > handles[j].call
  /\ \E k \in DOMAIN handles : handles[k].for = "client"

-----------------------------------------------------------------------------
(* C5 *)

SomeRids == ClientRids \ {None}

FetchArgsWithRid ==
  [method : Methods, url : Urls, headers : HeaderLists, client_rid : SomeRids]

C5_LookupRule ==
  \A args \in FetchArgsWithRid, data \in DataBufs :
    LET o == op_fetch(resource_table, args, data)
        r == TableGet(resource_table, Unwrap(args.client_rid),
                      "HttpClientResource")
    IN /\ ~IsSome(r) =>
            (o.result = BadResource /\ ~o.spawn /\ o.gate = 0)
       /\ o.spawn => (IsSome(r) /\ o.request.client = Unwrap(r).client)

C5_LookupStep ==
  (IsFetchCall /\ last'.result = BadResource)
    => /\ tasks' = tasks
       /\ resource_table' = resource_table
       /\ ~aborted'

\* C5: a fetch call whose clientHandle is absent from the table or names a
\* resource that is not an HTTP client returns the invalid-handle error: no
\* future is spawned (so none runs on the default client) and the process
\* does not abort.
C5_InvalidClientHandle ==
  []C5_LookupRule /\ [][C5_LookupStep]_vars

C5_Witness ==
  /\ last.op = "fetch"
  /\ last.result = BadResource
  /\ ncalls = 2
  /\ DOMAIN tasks = {1}
  /\ Bodies = {0}
  /\ ~aborted

-----------------------------------------------------------------------------
(* C6 *)

UnreadableCaFiles ==
  { f \in CaFiles : IsSome(f) /\ ~check_read(Unwrap(f)) }

C6_ReadRule ==
  \A ca_file \in UnreadableCaFiles :
    LET o == op_create_http_client(resource_table, ca_file) IN
    /\ o.result = PermissionDenied
    /\ o.rt = resource_table
    /\ o.rid = -1

C6_ReadStep ==
  (IsCreateCall /\ last'.result = PermissionDenied)
    => /\ resource_table' = resource_table
       /\ handles' = handles
       /\ last'.rid = -1
       /\ ~aborted'

\* C6: op_create_http_client with a caFile that may not be read returns
\* permission-denied, adds no client to the table and returns no handle.
C6_UnreadableCaFile ==
  []C6_ReadRule /\ [][C6_ReadStep]_vars

C6_Witness ==
  /\ last.op = "create"
  /\ last.result = PermissionDenied
  /\ resource_table.next_id > 0

-----------------------------------------------------------------------------
(* C7 *)

C7_Step ==
  \A id \in 1..MaxCalls, res \in Responses :
    (TaskComplete(id, res) /\ ~res.transport_ok)
      => /\ tasks'[id].kind = "err"
         /\ tasks'[id].err = NetworkError
         /\ tasks'[id].json = NoJson
         /\ resource_table' = resource_table
         /\ handles' = handles
         /\ ~aborted'

\* C7: when send() of a fetch future fails, the future resolves to the
\* network error, carries no payload and leaves the resource table as it was.
C7_TransportFailure == [][C7_Step]_vars

C7_Witness ==
  /\ \E id \in DOMAIN tasks :
       /\ tasks[id].pc = "done"
       /\ tasks[id].kind = "err"
       /\ tasks[id].err = NetworkError
       /\ BodiesOf(id) = {}
  /\ Bodies # {}

-----------------------------------------------------------------------------
(* C8 *)

\* C8: for every status the server answers with, a fetch future whose send()
\* succeeded resolves to a payload with that status and a fresh body handle.
C8_StatusIsData ==
  [][\A id \in 1..MaxCalls, res \in Responses :
       (TaskComplete(id, res) /\ res.transport_ok)
         => /\ tasks'[id].kind = "ok"
            /\ tasks'[id].json.status = res.status
            /\ tasks'[id].json.bodyRid \notin DOMAIN resource_table.map
            /\ tasks'[id].json.bodyRid \in DOMAIN resource_table'.map
            /\ ~aborted'
    ]_vars

-----------------------------------------------------------------------------
(* C9 *)

HasBadHeader(headers) ==
  \E i \in 1..Len(headers) :
    \/ ~HeaderNameFromBytes(headers[i][1])
    \/ ~HeaderValueFromStr(headers[i][2])

\* C9: a fetch call with a syntactically invalid header name or value
\* returns an error value to the caller: it spawns no future and does not
\* abort the process.
C9_BadHeaderIsError ==
  [][\A args \in FetchArgs, data \in DataBufs :
       (Fetch(args, data) /\ HasBadHeader(args.headers))
         => /\ last'.result \in ErrorValues
            /\ tasks' = tasks
            /\ ~aborted'
    ]_vars

-----------------------------------------------------------------------------
(* C10 *)

\* C10: a fetch call with more than one body chunk returns an error value to
\* the caller: it spawns no future and does not abort the process; with no
\* chunk the request has no body and with one chunk that chunk is the body.
C10_ChunkCountIsError ==
  [][\A args \in FetchArgs, data \in DataBufs :
       Fetch(args, data)
         => /\ Len(data) > 1 =>
                 (last'.result \in ErrorValues /\ tasks' = tasks /\ ~aborted')
            /\ (last'.result = "Async" /\ Len(data) = 0) =>
                 tasks'[ncalls'].request.body = None
            /\ (last'.result = "Async" /\ Len(data) = 1) =>
                 tasks'[ncalls'].request.body = Some(data[1])
    ]_vars

-----------------------------------------------------------------------------
(* C11 *)

\* C11: when create_http_client fails on invalid trust-anchor material, the
\* call returns an error value: no client is registered, the table is left
\* as it was and the process goes on serving calls and pending futures.
C11_BadMaterialIsError ==
  [][\A ca_file \in CaFiles :
       (CreateHttpClient(ca_file) /\ ~create_http_client(ca_file).ok)
         => /\ last'.result \notin Panics
            /\ ~aborted'
            /\ resource_table' = resource_table
            /\ handles' = handles
    ]_vars

-----------------------------------------------------------------------------
(* C12 *)

\* C12: every spawned fetch future runs to natural completion and delivers
\* exactly one outcome, a payload or a network error: no future ends in a
\* panic, and a finished one carries either the payload or the error, never
\* both.
C12_EveryTaskDelivers ==
  \A id \in DOMAIN tasks :
    /\ tasks[id].pc # "panicked"
    /\ tasks[id].pc = "done" =>
         /\ tasks[id].kind \in {"ok", "err"}
         /\ tasks[id].kind = "ok" <=> tasks[id].json # NoJson
         /\ tasks[id].kind = "err" <=> tasks[id].err = NetworkError

-----------------------------------------------------------------------------
(* C13 *)

\* the futures that have not finished
Pending == { i \in DOMAIN tasks : tasks[i].pc \in {"spawned", "sending"} }

\* the next step of future id can be taken now, whatever the network answers
CanAdvance(id) ==
  IF tasks[id].pc = "spawned"
  THEN ENABLED TaskSend(id)
  ELSE \A res \in Responses : ENABLED TaskComplete(id, res)

\* C13: completions are not ordered by issue order: while the process runs,
\* every pending future can take its next step whatever the state of the
\* others, so of two pending fetches either may complete first; and each
\* successful fetch holds the body of its own response.
C13_NoCompletionOrder ==
  /\ ~aborted => \A id \in Pending : CanAdvance(id)
  /\ \A id \in Succeeded :
       /\ BodiesOf(id) = {tasks[id].json.bodyRid}
       /\ \E k \in DOMAIN handles :
            handles[k] = [rid |-> tasks[id].json.bodyRid, for |-> "body",
                          call |-> id]

\* the second fetch completed first, then the first, then the third
C13_Witness ==
  /\ Len(handles) = 3
  /\ handles[1].call = 2
  /\ handles[2].call = 1
  /\ handles[3].call = 3
  /\ \A k \in 1..3 : handles[k].for = "body"

-----------------------------------------------------------------------------
(* C14 *)

C14_GateRule ==
  \A args \in FetchArgs, data \in DataBufs :
    LET o == op_fetch(resource_table, args, data)
        u == UrlParse(args.url)
    IN /\ o.gate \in {0, 1}
       /\ o.gate = 1 =>
            /\ LookupClient(resource_table, args.client_rid).ok
            /\ ParseMethod(args.method).ok
            /\ u.ok
            /\ u.scheme \in {"http", "https"}
       /\ o.spawn => (o.gate = 1 /\ check_net_url(u))

C14_TaskRule ==
  \A id \in DOMAIN tasks :
    LET u == UrlParse(tasks[id].url) IN
    /\ u.ok
    /\ u.scheme \in {"http", "https"}
    /\ check_net_url(u)

C14_Step ==
  /\ DOMAIN tasks' # DOMAIN tasks =>
       /\ IsFetchCall
       /\ last'.gate = 1
       /\ last'.result = "Async"
       /\ DOMAIN tasks' = DOMAIN tasks \cup {ncalls'}
  /\ IsFetchCall => last'.gate \in {0, 1}

\* C14: a fetch call asks the permission gate at most once, and only after
\* the client lookup, the method, the url and the scheme have passed; a
\* future is spawned only by a call whose one check allowed the url, so the
\* url of every pending or finished future is one the gate allows.
C14_OneAllowingCheckPerTask ==
  []C14_GateRule /\ []C14_TaskRule /\ [][C14_Step]_vars

C14_Witness ==
  /\ \E i \in DOMAIN tasks : tasks[i].pc = "done"
  /\ \E j \in DOMAIN tasks : tasks[j].pc \in {"spawned", "sending"}
  /\ last.op = "fetch"
  /\ last.result = PermissionDenied
  /\ last.gate = 1

-----------------------------------------------------------------------------
(* C15 *)

\* C15: no access to the resource table is held across a step boundary (a
\* return of an op or a suspension of a future), so every borrow() and
\* borrow_mut() finds the table free: no step ever panics on a borrow
\* conflict, under any interleaving of calls and completions.
C15_NoBorrowConflict ==
  /\ borrows = Free
  /\ last.result # PanicBorrow
  /\ \A id \in DOMAIN tasks : tasks[id].err # PanicBorrow

\* a client was created, and a fetch was called, while an earlier fetch was
\* pending; that fetch then completed and registered its body
C15_Witness ==
  /\ \E a, b \in DOMAIN handles :
       /\ a < b
       /\ handles[a].for = "client"
       /\ handles[b].for = "body"
       /\ handles[b].call < handles[a].call
  /\ last.op = "fetch"
  /\ last.result = "Async"
  /\ tasks[ncalls].pc = "sending"

-----------------------------------------------------------------------------
(* C16 *)

\* the handles under which the table holds an HTTP client
Clients ==
  { r \in DOMAIN resource_table.map :
      resource_table.map[r].res.type = "HttpClientResource" }

\* every future that was given a client handle still finds that client
C16_Usable ==
  \A id \in DOMAIN tasks :
    IsSome(tasks[id].client_rid) => Unwrap(tasks[id].client_rid) \in Clients

C16_Step ==
  \A r \in Clients :
    /\ r \in DOMAIN resource_table'.map
    /\ resource_table'.map[r] = resource_table.map[r]

\* C16: no step of a fetch (the call, the send, the completion, with any
\* outcome) changes a registered HTTP client: its handle maps to the same
\* resource before and after, also when several fetches share the handle.
C16_ClientUntouched ==
  []C16_Usable /\ [][C16_Step]_vars

\* two finished fetches shared one client handle, one succeeded and one
\* failed in its future
C16_Witness ==
  \E i, j \in DOMAIN tasks :
    /\ i # j
    /\ IsSome(tasks[i].client_rid)
    /\ tasks[j].client_rid = tasks[i].client_rid
    /\ tasks[i].pc = "done" /\ tasks[i].kind = "ok"
    /\ tasks[j].pc = "done" /\ tasks[j].kind = "err"
    /\ Unwrap(tasks[i].client_rid) \in Clients

-----------------------------------------------------------------------------
(* C17 *)

\* the type of the resource a handle maps to, "" when it maps to nothing
TypeAt(rid) ==
  IF rid \in DOMAIN resource_table.map
  THEN resource_table.map[rid].res.type
  ELSE ""

\* C17: in every reachable state, every handle returned by
\* create_http_client maps to an HTTP client resource and a typed client
\* lookup on it succeeds; every bodyRid delivered in a fetch payload maps to
\* the streaming body of that fetch and a typed client lookup on it fails.
C17_HandlesTyped ==
  /\ \A k \in DOMAIN handles :
       /\ handles[k].for = "client" =>
            /\ TypeAt(handles[k].rid) = "HttpClientResource"
            /\ LookupClient(resource_table, Some(handles[k].rid)).ok
       /\ handles[k].for = "body" =>
            /\ TypeAt(handles[k].rid) = "StreamResourceHolder"
            /\ ~LookupClient(resource_table, Some(handles[k].rid)).ok
  /\ \A id \in Succeeded :
       /\ TypeAt(tasks[id].json.bodyRid) = "StreamResourceHolder"
       /\ resource_table.map[tasks[id].json.bodyRid].res = HttpBodyResource(id)
       /\ ~IsSome(TableGet(resource_table, tasks[id].json.bodyRid,
                           "HttpClientResource"))

\* a body and a client are registered under the two handles a fetch can
\* name, and the last fetch named the body's handle as its client
C17_Witness ==
  /\ \E k \in DOMAIN handles : handles[k].for = "client"
  /\ \E k \in DOMAIN handles :
       /\ handles[k].for = "body"
       /\ Some(handles[k].rid) \in ClientRids
  /\ resource_table.next_id = 2
  /\ last.op = "fetch" /\ last.result = BadResource

-----------------------------------------------------------------------------
(* C18 *)

\* what each step reports when it fails, in the order of the steps
FaultOrder ==
  << BadResource, InvalidMethod, UrlParseError, SchemeNotSupported,
     PermissionDenied, PanicArgs, PanicHeader >>

\* for each step, whether the input is faulty for it, each taken on its own
HandleFault(rt, args) ==
  IsSome(args.client_rid)
    /\ ~IsSome(TableGet(rt, Unwrap(args.client_rid), "HttpClientResource"))

MethodFault(args) ==
  IsSome(args.method) /\ ~MethodFromBytes(Unwrap(args.method))

UrlFault(args) == args.url[1] = ""

SchemeFault(args) == args.url[1] \notin {"http", "https"}

PermissionFault(args) == ~check_net_url(UrlParse(args.url))

ChunkFault(data) == Len(data) > 1

HeaderFault(args) == HasBadHeader(args.headers)

\* the first faulty step in the order of FaultOrder, 0 when there is none
FirstFault(rt, args, data) ==
  IF HandleFault(rt, args) THEN 1
  ELSE IF MethodFault(args) THEN 2
  ELSE IF UrlFault(args) THEN 3
  ELSE IF SchemeFault(args) THEN 4
  ELSE IF PermissionFault(args) THEN 5
  ELSE IF ChunkFault(data) THEN 6
  ELSE IF HeaderFault(args) THEN 7
  ELSE 0

C18_OrderRule ==
  \A args \in FetchArgs, data \in DataBufs :
    LET k == FirstFault(resource_table, args, data) IN
    op_fetch(resource_table, args, data).result
      = (IF k = 0 THEN "Async" ELSE FaultOrder[k])

C18_OrderStep ==
  IsFetchCall =>
    /\ last'.result \in {"Async"} \cup { FaultOrder[k] : k \in DOMAIN FaultOrder }
    /\ last'.gate = 0 <=> last'.result \in { FaultOrder[k] : k \in 1..4 }
    /\ last'.result = "Async" <=> DOMAIN tasks' # DOMAIN tasks

\* C18: the outcome of a fetch call with several faults is that of the first
\* failing step in the order client handle lookup, method, url parse, scheme,
\* network permission, body chunk count, header syntax; later faults never
\* show, and a future is spawned only when no step fails.
C18_FirstFaultWins ==
  []C18_OrderRule /\ [][C18_OrderStep]_vars

\* a fetch was denied by the gate in a state where the table holds a client
\* and a body, so that valid, absent and wrongly typed handles all occur
\* among the inputs
C18_Witness ==
  /\ last.op = "fetch"
  /\ last.result = PermissionDenied
  /\ Clients # {}
  /\ Bodies # {}

-----------------------------------------------------------------------------
(* C19 *)

\* the step is a successful call of op_create_http_client
CreateSucceeds == IsCreateCall /\ last'.result = "Sync"

\* the step is the completion of future id with a response it delivers
CompletionSucceeds(id) ==
  /\ id \in DOMAIN tasks
  /\ tasks[id].pc = "sending"
  /\ tasks'[id].pc = "done"
  /\ tasks'[id].kind = "ok"

\* the step adds exactly one entry, under the counter's value
AddsOne ==
  /\ DOMAIN resource_table'.map
       = DOMAIN resource_table.map \cup {resource_table.next_id}
  /\ resource_table.next_id \notin DOMAIN resource_table.map
  /\ resource_table'.next_id = resource_table.next_id + 1

C19_Step ==
  /\ \A r \in DOMAIN resource_table.map :
       /\ r \in DOMAIN resource_table'.map
       /\ resource_table'.map[r] = resource_table.map[r]
  /\ IsFetchCall => resource_table' = resource_table
  /\ CreateSucceeds =>
       /\ AddsOne
       /\ resource_table'.map[resource_table.next_id].res.type
            = "HttpClientResource"
  /\ \A id \in DOMAIN tasks :
       CompletionSucceeds(id) =>
         /\ AddsOne
         /\ resource_table'.map[resource_table.next_id].res
              = HttpBodyResource(id)
  /\ resource_table' # resource_table =>
       \/ CreateSucceeds
       \/ \E id \in DOMAIN tasks : CompletionSucceeds(id)

\* C19: the resource table changes only in a successful create_http_client
\* call, which adds exactly one client entry, and in a successful completion
\* of a fetch future, which adds exactly one body entry; a fetch call never
\* changes it, and no step removes or replaces an entry.
C19_OnlyAdds ==
  [][C19_Step]_vars

\* the table was left alone by a denied create, a failed completion and a
\* fetch call, and holds one client and one body
C19_Witness ==
  /\ Cardinality(Clients) = 1
  /\ Cardinality(Bodies) = 1
  /\ resource_table.next_id = 2
  /\ last.op = "create"
  /\ last.result = PermissionDenied
  /\ \E id \in DOMAIN tasks : tasks[id].pc = "done" /\ tasks[id].kind = "ok"

-----------------------------------------------------------------------------
(* C20 *)

\* handles is in the order in which the handles were handed out
C20_Order ==
  \A i, j \in DOMAIN handles :
    i < j => handles[i].rid < handles[j].rid

C20_Step ==
  /\ IsFetchCall => resource_table'.next_id = resource_table.next_id
  /\ \A id \in DOMAIN tasks :
       CompletionSucceeds(id) =>
         /\ tasks'[id].json.bodyRid = resource_table.next_id
         /\ handles' = Append(handles, [rid |-> resource_table.next_id,
                                        for |-> "body", call |-> id])
  /\ CreateSucceeds =>
       /\ last'.rid = resource_table.next_id
       /\ \A id \in Pending :
            \A k \in DOMAIN handles : handles[k].call # id

\* C20: a body handle is taken from the counter when the future completes,
\* not when the fetch is called: of two delivered bodies the one whose
\* completion ran first has the smaller handle, whatever the order of the
\* calls, and a client created while a fetch is pending gets a smaller
\* handle than that fetch's body.
C20_AllocatedAtCompletion ==
  []C20_Order /\ [][C20_Step]_vars

\* the second fetch completed first, then a client was created, then the
\* first fetch completed
C20_Witness ==
  /\ Len(handles) = 3
  /\ handles[1].for = "body" /\ handles[1].call = 2
  /\ handles[2].for = "client" /\ handles[2].call = 3
  /\ handles[3].for = "body" /\ handles[3].call = 1

====
